---- MODULE Spec2Model ----
(***************************************************************************)
(* Model of config.c: the name registries (KeyModList, LayoutsList,        *)
(* KeyfuncList), the two lookups, parse_config and get_numlockmask.        *)
(*                                                                         *)
(* C strings are TLA+ strings, compared with a_strcmp as equality; the     *)
(* statusbar position, which the code compares with a_strncmp, is a tuple  *)
(* of characters.  An array of n elements that p_new allocates is a        *)
(* function on 0..n-1; the static tables are sequences, entry i of the     *)
(* code at position i + 1.                                                 *)
(***************************************************************************)
EXTENDS Integers, Sequences, FiniteSets, TLC

VARIABLES
    cfg,          \* the tree cfg_parse produced from the configuration file
    beyond,       \* what lies in memory right after KeyModList, once it was read
    pc,           \* position of parse_config
    i,            \* parse_config's loop index
    awesomeconf,  \* the awesome_config being filled
    probe,        \* ghost: reads of layouts[0].arrange made on an empty array
    order,        \* ghost: the sections bound so far, in order
    stderr,       \* diagnostics written so far
    unit          \* a single call of one of the file's functions (unit specifications)

vars == <<cfg, beyond, pc, i, awesomeconf, probe, order, stderr, unit>>

---------------------------------------------------------------------------
(* Bounds of the model *)

MaxLayouts == 2
MaxRules == 1
MaxTags == 2
MaxKeys == 1
MaxMods == 2
MaxKeyPerMod == 2
MaxBoundSlots == 2

---------------------------------------------------------------------------
(* C values *)

NULL == "NULL"
False == FALSE
True == TRUE

\* X.h modifier masks, as used at lines 61-68 and 401
Mod4Mask == 64

RECURSIVE BitOr(_, _)
BitOr(a, b) ==
    IF a = 0 THEN b
    ELSE IF b = 0 THEN a
    ELSE (IF a % 2 = 1 \/ b % 2 = 1 THEN 1 ELSE 0) + 2 * BitOr(a \div 2, b \div 2)

RECURSIVE Shl(_, _)
Shl(a, n) == IF n = 0 THEN a ELSE Shl(2 * a, n - 1)

---------------------------------------------------------------------------
(* The registries *)

KeyModList ==
    << [name |-> "Shift",   keysym |-> 1],
       [name |-> "Lock",    keysym |-> 2],
       [name |-> "Control", keysym |-> 4],
       [name |-> "Mod1",    keysym |-> 8],
       [name |-> "Mod2",    keysym |-> 16],
       [name |-> "Mod3",    keysym |-> 32],
       [name |-> "Mod4",    keysym |-> 64],
       [name |-> "Mod5",    keysym |-> 128],
       [name |-> "None",    keysym |-> 0] >>

LayoutsList ==
    << [name |-> "tile",     func |-> "layout_tile"],
       [name |-> "tileleft", func |-> "layout_tileleft"],
       [name |-> "max",      func |-> "layout_max"],
       [name |-> "floating", func |-> "layout_floating"],
       [name |-> NULL,       func |-> NULL] >>

KeyfuncList ==
    << [name |-> "spawn",                  func |-> "uicb_spawn"],
       [name |-> "exec",                   func |-> "uicb_exec"],
       [name |-> "killclient",             func |-> "uicb_killclient"],
       [name |-> "moveresize",             func |-> "uicb_moveresize"],
       [name |-> "settrans",               func |-> "uicb_settrans"],
       [name |-> "setborder",              func |-> "uicb_setborder"],
       [name |-> "swapnext",               func |-> "uicb_swapnext"],
       [name |-> "swapprev",               func |-> "uicb_swapprev"],
       [name |-> "tag",                    func |-> "uicb_tag"],
       [name |-> "togglefloating",         func |-> "uicb_togglefloating"],
       [name |-> "toggleview",             func |-> "uicb_toggleview"],
       [name |-> "toggletag",              func |-> "uicb_toggletag"],
       [name |-> "view",                   func |-> "uicb_view"],
       [name |-> "view_tag_prev_selected", func |-> "uicb_tag_prev_selected"],
       [name |-> "view_tag_previous",      func |-> "uicb_tag_viewprev"],
       [name |-> "view_tag_next",          func |-> "uicb_tag_viewnext"],
       [name |-> "setlayout",              func |-> "uicb_setlayout"],
       [name |-> "focusnext",              func |-> "uicb_focusnext"],
       [name |-> "focusprev",              func |-> "uicb_focusprev"],
       [name |-> "togglemax",              func |-> "uicb_togglemax"],
       [name |-> "toggleverticalmax",      func |-> "uicb_toggleverticalmax"],
       [name |-> "togglehorizontalmax",    func |-> "uicb_togglehorizontalmax"],
       [name |-> "zoom",                   func |-> "uicb_zoom"],
       [name |-> "setmwfact",              func |-> "uicb_setmwfact"],
       [name |-> "setnmaster",             func |-> "uicb_setnmaster"],
       [name |-> "setncol",                func |-> "uicb_setncol"],
       [name |-> "focusnextscreen",        func |-> "uicb_focusnextscreen"],
       [name |-> "focusprevscreen",        func |-> "uicb_focusprevscreen"],
       [name |-> "movetoscreen",           func |-> "uicb_movetoscreen"],
       [name |-> "quit",                   func |-> "uicb_quit"],
       [name |-> "togglebar",              func |-> "uicb_togglebar"],
       [name |-> NULL,                     func |-> NULL] >>

\* a_strcmp(a, b): 0 when the two strings are equal
a_strcmp(a, b) == IF a = b THEN 0 ELSE 1

\* The loop  for(i = 0; list[i].name; i++) if(!a_strcmp(name, list[i].name)) return ...
\* as the (1-based) position at which it stops: the first entry whose name is
\* NULL or equal to the given name, or Len(list) + 1 when the declared
\* entries hold neither, which is a read past the end of the array.
RECURSIVE scan(_, _, _)
scan(name, list, k) ==
    IF k > Len(list) THEN k
    ELSE IF list[k].name = NULL THEN k
    ELSE IF a_strcmp(name, list[k].name) = 0 THEN k
    ELSE scan(name, list, k + 1)

\* The outcome of a lookup: ret is the value returned, last the position of
\* the last entry read (0: none), fault whether the read past the array
\* ended the process.
key_mask_lookup(keyname, past) ==
    IF keyname # NULL
    THEN LET k == scan(keyname, KeyModList, 1)
         IN  IF k > Len(KeyModList)
             THEN [ret |-> past.keysym, last |-> k, fault |-> past.kind = "fault"]
             ELSE IF KeyModList[k].name = NULL
             THEN [ret |-> 0, last |-> k, fault |-> FALSE]
             ELSE [ret |-> KeyModList[k].keysym, last |-> k, fault |-> FALSE]
    ELSE [ret |-> 0, last |-> 0, fault |-> FALSE]

\* (the callers pass LayoutsList or KeyfuncList, never a null list)
name_func_lookup(funcname, list) ==
    IF funcname # NULL
    THEN LET k == scan(funcname, list, 1)
         IN  IF k > Len(list)
             THEN [ret |-> NULL, last |-> k, fault |-> TRUE]
             ELSE IF list[k].name = NULL
             THEN [ret |-> NULL, last |-> k, fault |-> FALSE]
             ELSE [ret |-> list[k].func, last |-> k, fault |-> FALSE]
    ELSE [ret |-> NULL, last |-> 0, fault |-> FALSE]

---------------------------------------------------------------------------
(* Strings compared character by character *)

NUL == ""

CharAt(s, k) == IF k <= Len(s) THEN s[k] ELSE NUL

\* a_strncmp(a, b, n): 0 when a and b agree on their first n characters, or
\* up to and including the NUL that ends both
RECURSIVE a_strncmp_from(_, _, _, _)
a_strncmp_from(a, b, n, k) ==
    IF k > n THEN 0
    ELSE IF CharAt(a, k) # CharAt(b, k) THEN 1
    ELSE IF CharAt(a, k) = NUL THEN 0
    ELSE a_strncmp_from(a, b, n, k + 1)

a_strncmp(a, b, n) == a_strncmp_from(a, b, n, 1)

str_off == <<"o", "f", "f">>
str_bottom == <<"b", "o", "t", "t", "o", "m">>
str_top == <<"t", "o", "p">>

\* lines 330-335 (tmp is never NULL: the option has the default "top")
statusbar_position(tmp) ==
    IF a_strncmp(tmp, str_off, 6) = 0 THEN "BarOff"
    ELSE IF a_strncmp(tmp, str_bottom, 6) = 0 THEN "BarBot"
    ELSE "BarTop"

---------------------------------------------------------------------------
(* get_numlockmask *)

\* A keyboard: the answer of XGetModifierMapping (max_keypermod and the
\* 8 * max_keypermod key codes, 0 for an unused slot) and the key code
\* XKeysymToKeycode gives for XK_Num_Lock (0 when no key has it).
RECURSIVE numlock_loop(_, _, _, _)
numlock_loop(kb, ii, jj, mask) ==
    IF ii >= 8 THEN mask
    ELSE IF jj >= kb.max_keypermod THEN numlock_loop(kb, ii + 1, 0, mask)
    ELSE numlock_loop(kb, ii, jj + 1,
             IF kb.modifiermap[ii * kb.max_keypermod + jj] = kb.numlock
             THEN Shl(1, ii) ELSE mask)

\* the loop, were it to stop at the first slot that holds the key code
RECURSIVE numlock_first(_, _, _)
numlock_first(kb, ii, jj) ==
    IF ii >= 8 THEN 0
    ELSE IF jj >= kb.max_keypermod THEN numlock_first(kb, ii + 1, 0)
    ELSE IF kb.modifiermap[ii * kb.max_keypermod + jj] = kb.numlock THEN Shl(1, ii)
    ELSE numlock_first(kb, ii, jj + 1)

get_numlockmask_break(kb) == numlock_first(kb, 0, 0)

get_numlockmask(kb) == numlock_loop(kb, 0, 0, 0)

---------------------------------------------------------------------------
(* The configuration tree (libconfuse) *)

\* An option of the tree: <<>> when the file does not give it, <<v>> when it
\* gives v.  The getters substitute the default declared in the cfg_opt_t
\* tables (lines 170-254).
cfg_get(opt, default) == IF opt = <<>> THEN default ELSE opt[1]

\* cfg_size / cfg_getnsec on a repeated section or list (0-based index)
cfg_size(list) == Len(list)
cfg_getnsec(list, n) == list[n + 1]

SeqsUpTo(S, n) == UNION {[1..k -> S] : k \in 0..n}

LayoutEntries == [title : {"tile", "bogus"}, symbol : {<<>>, <<"[]=">>}]

RuleEntries ==
    { [name |-> <<"Gimp">>, tags |-> <<"3">>, float |-> <<TRUE>>],
      [name |-> <<>>, tags |-> <<>>, float |-> <<>>] }

TagEntries == [title : {"www"}, layout : {<<>>, <<"max">>}]

ModNames == {"Shift", "Mod4", "bogus"}

KeyEntries ==
    { [modkey |-> <<m>>, key |-> <<"Return">>, command |-> <<"spawn">>, arg |-> <<"xterm">>] :
          m \in SeqsUpTo(ModNames, MaxMods) }
    \cup
    { [modkey |-> <<>>, key |-> <<>>, command |-> c, arg |-> <<>>] :
          c \in {<<>>, <<"bogus">>} }

DefaultKey ==
    [modkey |-> <<>>, key |-> <<"Return">>, command |-> <<"spawn">>, arg |-> <<"xterm">>]

\* Trees that vary the layouts, rules and tags sections
CoreConfigs ==
    [ parse_error : BOOLEAN,
      position    : {<<>>},
      layouts     : SeqsUpTo(LayoutEntries, MaxLayouts),
      rules       : SeqsUpTo(RuleEntries, MaxRules),
      tags        : SeqsUpTo(TagEntries, MaxTags),
      modkey      : {<<>>},
      keys        : {<< DefaultKey >>} ]

\* Trees that vary the statusbar and keys sections
KeyConfigs ==
    [ parse_error : {FALSE},
      position    : {<<str_bottom>>, <<str_off>>},
      layouts     : {<< [title |-> "tile", symbol |-> <<>>] >>},
      rules       : {<<>>},
      tags        : {<< [title |-> "www", layout |-> <<>>] >>},
      modkey      : {<<>>, <<"Mod1">>, <<"None">>, <<"bogus">>},
      keys        : SeqsUpTo(KeyEntries, MaxKeys) ]

Configs == CoreConfigs \cup KeyConfigs

---------------------------------------------------------------------------
(* The keyboard the X server reports *)

Slots(kpm) == 0..(8 * kpm - 1)

\* modifier maps with at most MaxBoundSlots slots in use
ModifierMaps(kpm) ==
    { [s \in Slots(kpm) |->
          IF \E k \in 1..MaxBoundSlots : t[k][1] = s
          THEN t[CHOOSE k \in 1..MaxBoundSlots :
                     /\ t[k][1] = s
                     /\ \A l \in 1..(k - 1) : t[l][1] # s][2]
          ELSE 0] :
      t \in [1..MaxBoundSlots -> (({-1} \cup Slots(kpm)) \X {77, 38})] }

Keyboards ==
    UNION { [max_keypermod : {kpm}, modifiermap : ModifierMaps(kpm), numlock : {0, 77}] :
            kpm \in 1..MaxKeyPerMod }

\* two keyboards for parse_config: Num Lock on Mod2, and Num Lock on no modifier
SampleKeyboards ==
    { [max_keypermod |-> 2,
       modifiermap |-> [s \in Slots(2) |-> IF s = 8 THEN 77 ELSE IF s = 0 THEN 50 ELSE 0],
       numlock |-> 77],
      [max_keypermod |-> 2,
       modifiermap |-> [s \in Slots(2) |-> IF s = 0 THEN 50 ELSE 0],
       numlock |-> 77] }

\* What a read past the last entry of KeyModList can find: a null name (the
\* loop ends, 0 is returned), a name equal to the one looked up (whatever
\* follows it is returned), or memory that cannot be read (the process dies).
Unread == [kind |-> "unread", keysym |-> 0]

Beyond ==
    { [kind |-> "null", keysym |-> 0],
      [kind |-> "match", keysym |-> 256],
      [kind |-> "fault", keysym |-> 0] }

\* the memory is the same at every read: once read, it stays what it was
PastFor(keyname) ==
    IF keyname = NULL \/ scan(keyname, KeyModList, 1) <= Len(KeyModList) THEN {beyond}
    ELSE IF beyond = Unread THEN Beyond
    ELSE {beyond}

Reveal(name, past) ==
    IF name # NULL /\ scan(name, KeyModList, 1) > Len(KeyModList) THEN past ELSE beyond

---------------------------------------------------------------------------
(* awesome_config *)

\* p_new(type, count): count zeroed elements
p_new(zero, count) == [k \in 0..(count - 1) |-> zero]

ZeroLayout == [arrange |-> NULL, symbol |-> NULL]
ZeroRule == [prop |-> NULL, tags |-> NULL, isfloating |-> FALSE]
ZeroTag == [name |-> NULL, selected |-> FALSE, was_selected |-> FALSE, layout |-> -1]
ZeroKey == [mod |-> 0, keysym |-> NULL, func |-> NULL, arg |-> NULL]

\* the structure the caller passes in, nothing assigned yet (-1: not assigned)
InitialConf ==
    [ statusbar_default_position |-> "unset",
      statusbar_position |-> "unset",
      nlayouts |-> -1, layouts |-> <<>>, current_layout |-> -1,
      nrules |-> -1, rules |-> <<>>,
      ntags |-> -1, tags |-> <<>>,
      modkey |-> -1, numlockmask |-> -1,
      nkeys |-> -1, keys |-> <<>> ]

Idle == [fn |-> "none"]

Init ==
    /\ cfg \in Configs
    /\ beyond = Unread
    /\ pc = "start"
    /\ i = 0
    /\ awesomeconf = InitialConf
    /\ probe = FALSE
    /\ order = <<>>
    /\ stderr = <<>>
    /\ unit = Idle

---------------------------------------------------------------------------
(* parse_config, section by section *)

Say(msg, n) == Append(stderr, [msg |-> msg, n |-> n])

\* eprint / die: the diagnostic, then exit(EXIT_FAILURE)
Exit(msg) ==
    /\ pc' = "exit"
    /\ stderr' = Say(msg, 0)

\* a_strlen(str): the length of the string, 0 for NULL
a_strlen(str) == IF str = NULL THEN 0 ELSE Len(str)

\* lines 265-297: the path, the display, cfg_init, cfg_parse, cfg_getsec
Parse ==
    /\ pc = "start"
    /\ pc' = "general"
    /\ stderr' = IF cfg.parse_error
                 THEN Say("awesome: error parsing configuration file", 0)
                 ELSE stderr
    /\ UNCHANGED <<cfg, beyond, i, awesomeconf, probe, order, unit>>

\* lines 299-308: XftFontOpenName gives a font or not
General ==
    /\ pc = "general"
    /\ order' = Append(order, "general")
    /\ \E font \in {NULL, "font"} :
          IF font = NULL
          THEN Exit("awesome: cannot init font")
          ELSE pc' = "colors" /\ stderr' = stderr
    /\ UNCHANGED <<cfg, beyond, i, awesomeconf, probe, unit>>

\* lines 310-325 and initxcolor: XAllocNamedColor succeeds or not
Colors ==
    /\ pc = "colors"
    /\ order' = Append(order, "colors")
    /\ \E allocated \in BOOLEAN :
          IF ~allocated
          THEN Exit("awesome: error, cannot allocate color")
          ELSE pc' = "statusbar" /\ stderr' = stderr
    /\ UNCHANGED <<cfg, beyond, i, awesomeconf, probe, unit>>

\* lines 327-337
Statusbar ==
    /\ pc = "statusbar"
    /\ order' = Append(order, "statusbar")
    /\ LET tmp == cfg_get(cfg.position, str_top)
           pos == statusbar_position(tmp)
       IN  awesomeconf' = [awesomeconf EXCEPT !.statusbar_default_position = pos,
                                              !.statusbar_position = pos]
    /\ pc' = "layouts"
    /\ UNCHANGED <<cfg, beyond, i, probe, stderr, unit>>

\* lines 341-343: the array, and the loop's i = 0
LayoutsBegin ==
    /\ pc = "layouts"
    /\ order' = Append(order, "layouts")
    /\ awesomeconf' = [awesomeconf EXCEPT
                          !.nlayouts = cfg_size(cfg.layouts),
                          !.layouts = p_new(ZeroLayout, cfg_size(cfg.layouts))]
    /\ i' = 0
    /\ pc' = "layouts_loop"
    /\ UNCHANGED <<cfg, beyond, probe, stderr, unit>>

\* the turn of the loop, were the symbol copied before the title is resolved
bind_layout_symbol_first(cfgsectmp) ==
    [arrange |-> name_func_lookup(cfgsectmp.title, LayoutsList).ret,
     symbol |-> cfg_get(cfgsectmp.symbol, "???")]

\* lines 345-353: what one turn of the loop stores in layouts[i]
bind_layout(cfgsectmp) ==
    LET arrange == name_func_lookup(cfgsectmp.title, LayoutsList).ret
    IN  IF arrange = NULL
        THEN [arrange |-> NULL, symbol |-> NULL]
        ELSE [arrange |-> arrange, symbol |-> cfg_get(cfgsectmp.symbol, "???")]

\* lines 343-354: one turn of the loop
LayoutIter ==
    /\ pc = "layouts_loop"
    /\ i < awesomeconf.nlayouts
    /\ LET entry == bind_layout(cfg_getnsec(cfg.layouts, i))
       IN  /\ awesomeconf' = [awesomeconf EXCEPT !.layouts[i] = entry]
           /\ stderr' = IF entry.arrange = NULL
                        THEN Say("awesome: unknown layout in configuration file", i)
                        ELSE stderr
    /\ i' = i + 1
    /\ UNCHANGED <<cfg, beyond, pc, probe, order, unit>>

\* the check, were it to accept any resolved entry as the default layout
layout_check_any(nlayouts, layouts) ==
    [fatal |-> \A k \in DOMAIN layouts : layouts[k].arrange = NULL,
     read0 |-> nlayouts # 0]

\* the check, were it to test the number of layouts alone
layout_check_count(nlayouts, layouts) ==
    [fatal |-> nlayouts = 0, read0 |-> FALSE]

\* line 362: !nlayouts || !current_layout->arrange, the right operand being
\* evaluated only when the left one is false.  read0: whether
\* current_layout->arrange was read.
layout_check(nlayouts, layouts) ==
    IF nlayouts = 0
    THEN [fatal |-> TRUE, read0 |-> FALSE]
    ELSE [fatal |-> layouts[0].arrange = NULL, read0 |-> TRUE]

\* lines 356-363
LayoutCheck ==
    /\ pc = "layouts_loop"
    /\ ~(i < awesomeconf.nlayouts)
    /\ awesomeconf' = [awesomeconf EXCEPT !.current_layout = 0]
    /\ LET c == layout_check(awesomeconf.nlayouts, awesomeconf.layouts)
       IN  /\ probe' = (probe \/ (c.read0 /\ awesomeconf.nlayouts = 0))
           /\ IF c.fatal
              THEN Exit("awesome: fatal: no default layout available")
              ELSE pc' = "rules" /\ stderr' = stderr
    /\ UNCHANGED <<cfg, beyond, i, order, unit>>

\* lines 367-369
RulesBegin ==
    /\ pc = "rules"
    /\ order' = Append(order, "rules")
    /\ awesomeconf' = [awesomeconf EXCEPT
                          !.nrules = cfg_size(cfg.rules),
                          !.rules = p_new(ZeroRule, cfg_size(cfg.rules))]
    /\ i' = 0
    /\ pc' = "rules_loop"
    /\ UNCHANGED <<cfg, beyond, probe, stderr, unit>>

\* lines 371-376
bind_rule(cfgsectmp) ==
    LET tags == cfg_get(cfgsectmp.tags, "")
    IN  [prop |-> cfg_get(cfgsectmp.name, ""),
         tags |-> IF a_strlen(tags) = 0 THEN NULL ELSE tags,
         isfloating |-> cfg_get(cfgsectmp.float, FALSE)]

\* lines 369-377: one turn of the loop
RuleIter ==
    /\ pc = "rules_loop"
    /\ i < awesomeconf.nrules
    /\ awesomeconf' = [awesomeconf EXCEPT !.rules[i] = bind_rule(cfg_getnsec(cfg.rules, i))]
    /\ i' = i + 1
    /\ UNCHANGED <<cfg, beyond, pc, probe, order, stderr, unit>>

\* lines 381-383
TagsBegin ==
    /\ pc = "rules_loop"
    /\ ~(i < awesomeconf.nrules)
    /\ order' = Append(order, "tags")
    /\ awesomeconf' = [awesomeconf EXCEPT
                          !.ntags = cfg_size(cfg.tags),
                          !.tags = p_new(ZeroTag, cfg_size(cfg.tags))]
    /\ i' = 0
    /\ pc' = "tags_loop"
    /\ UNCHANGED <<cfg, beyond, probe, stderr, unit>>

\* lines 385-389: layout is awesomeconf->layouts, the address of layouts[0]
bind_tag(cfgsectmp) ==
    [name |-> cfgsectmp.title, selected |-> False, was_selected |-> False, layout |-> 0]

\* lines 383-390: one turn of the loop
TagIter ==
    /\ pc = "tags_loop"
    /\ i < awesomeconf.ntags
    /\ awesomeconf' = [awesomeconf EXCEPT !.tags[i] = bind_tag(cfg_getnsec(cfg.tags, i))]
    /\ i' = i + 1
    /\ UNCHANGED <<cfg, beyond, pc, probe, order, stderr, unit>>

\* line 392
no_tags(ntags) == ntags = 0

\* the selection, were it made on the last tag bound
select_last(tags) ==
    [tags EXCEPT ![Cardinality(DOMAIN tags) - 1].selected = True,
                 ![Cardinality(DOMAIN tags) - 1].was_selected = True]

\* lines 396-397
select_first(tags) == [tags EXCEPT ![0].selected = True, ![0].was_selected = True]

\* lines 392-397
TagCheck ==
    /\ pc = "tags_loop"
    /\ ~(i < awesomeconf.ntags)
    /\ IF no_tags(awesomeconf.ntags)
       THEN Exit("awesome: fatal: no tags found in configuration file")
                /\ UNCHANGED awesomeconf
       ELSE /\ awesomeconf' = [awesomeconf EXCEPT !.tags = select_first(awesomeconf.tags)]
            /\ pc' = "keys"
            /\ stderr' = stderr
    /\ UNCHANGED <<cfg, beyond, i, probe, order, unit>>

\* line 401
primary_modkey(tmp_key) == IF tmp_key # 0 THEN tmp_key ELSE Mod4Mask

\* lines 400-406: the primary modifier, the Num Lock mask, the array of keys
KeysBegin ==
    /\ pc = "keys"
    /\ order' = Append(order, "keys")
    /\ LET name == cfg_get(cfg.modkey, "Mod4")
       IN  \E past \in PastFor(name), kb \in SampleKeyboards :
              LET r == key_mask_lookup(name, past)
              IN  /\ beyond' = Reveal(name, past)
                  /\ IF r.fault
                     THEN pc' = "crashed" /\ UNCHANGED <<awesomeconf, i>>
                     ELSE /\ awesomeconf' = [awesomeconf EXCEPT
                                 !.modkey = primary_modkey(r.ret),
                                 !.numlockmask = get_numlockmask(kb),
                                 !.nkeys = cfg_size(cfg.keys),
                                 !.keys = p_new(ZeroKey, cfg_size(cfg.keys))]
                          /\ i' = 0
                          /\ pc' = "keys_loop"
    /\ UNCHANGED <<cfg, probe, stderr, unit>>

\* lines 409-410: keys[i].mod |= key_mask_lookup(name j), for each name in turn
RECURSIVE key_mods(_, _, _, _)
key_mods(names, j, past, acc) ==
    IF ~(j < cfg_size(names)) THEN acc
    ELSE LET r == key_mask_lookup(cfg_getnsec(names, j), past)
         IN  IF r.fault
             THEN [mod |-> acc.mod, fault |-> TRUE]
             ELSE key_mods(names, j + 1, past,
                           [mod |-> BitOr(acc.mod, r.ret), fault |-> FALSE])

\* lines 408-413: what one turn of the loop makes of keys[i]
bind_key(key, cfgsectmp, past) ==
    LET m == key_mods(cfg_get(cfgsectmp.modkey, <<"Mod4">>), 0, past,
                      [mod |-> key.mod, fault |-> FALSE])
    IN  [fault |-> m.fault,
         key |-> [mod |-> m.mod,
                  keysym |-> cfg_get(cfgsectmp.key, "None"),
                  func |-> name_func_lookup(cfg_get(cfgsectmp.command, ""), KeyfuncList).ret,
                  arg |-> cfg_get(cfgsectmp.arg, NULL)]]

Unregistered(names) ==
    {names[k] : k \in {l \in 1..Len(names) : scan(names[l], KeyModList, 1) > Len(KeyModList)}}

\* lines 406-414: one turn of the loop
KeyIter ==
    /\ pc = "keys_loop"
    /\ i < awesomeconf.nkeys
    /\ LET cfgsectmp == cfg_getnsec(cfg.keys, i)
           names == cfg_get(cfgsectmp.modkey, <<"Mod4">>)
           miss == Unregistered(names)
           probe_name == IF miss = {} THEN NULL ELSE CHOOSE n \in miss : TRUE
       IN  \E past \in PastFor(probe_name) :
              LET b == bind_key(awesomeconf.keys[i], cfgsectmp, past)
              IN  /\ beyond' = Reveal(probe_name, past)
                  /\ IF b.fault
                     THEN pc' = "crashed" /\ UNCHANGED <<awesomeconf, i>>
                     ELSE /\ awesomeconf' = [awesomeconf EXCEPT !.keys[i] = b.key]
                          /\ i' = i + 1
                          /\ pc' = pc
    /\ UNCHANGED <<cfg, probe, order, stderr, unit>>

\* lines 416-419: cfg_free, and the return
Finish ==
    /\ pc = "keys_loop"
    /\ ~(i < awesomeconf.nkeys)
    /\ pc' = "done"
    /\ UNCHANGED <<cfg, beyond, i, awesomeconf, probe, order, stderr, unit>>

Next ==
    \/ Parse
    \/ General
    \/ Colors
    \/ Statusbar
    \/ LayoutsBegin
    \/ LayoutIter
    \/ LayoutCheck
    \/ RulesBegin
    \/ RuleIter
    \/ TagsBegin
    \/ TagIter
    \/ TagCheck
    \/ KeysBegin
    \/ KeyIter
    \/ Finish

Spec == Init /\ [][Next]_vars

---------------------------------------------------------------------------
(* The functions of the file, called one at a time *)

UnitNames ==
    {KeyModList[k].name : k \in 1..Len(KeyModList)}
    \cup {"tile", "tileleft", "max", "floating", "spawn", "quit", "togglebar"}
    \cup {"bogus", "shift", "Mod", "", NULL}

PositionStrings ==
    { str_off, str_bottom, str_top, <<>>,
      <<"w", "e", "i", "r", "d">>,
      <<"o", "f">>,
      <<"o", "f", "f", "l", "i", "n", "e">>,
      <<"O", "f", "f">>,
      <<"b", "o", "t", "t", "o">>,
      <<"b", "o", "t", "t", "o", "m", "l", "e", "s", "s">>,
      <<"b", "o", "t", "t", "o", "m", " ">>,
      <<"t", "o", "p", "b", "o", "t", "t", "o", "m">> }

CallKeyMaskLookup ==
    /\ unit = Idle
    /\ \E keyname \in UnitNames, past \in Beyond :
          unit' = [fn |-> "key_mask_lookup", name |-> keyname, list |-> KeyModList,
                   out |-> key_mask_lookup(keyname, past)]
    /\ UNCHANGED <<cfg, beyond, pc, i, awesomeconf, probe, order, stderr>>

CallNameFuncLookup ==
    /\ unit = Idle
    /\ \E funcname \in UnitNames, list \in {LayoutsList, KeyfuncList} :
          unit' = [fn |-> "name_func_lookup", name |-> funcname, list |-> list,
                   out |-> name_func_lookup(funcname, list)]
    /\ UNCHANGED <<cfg, beyond, pc, i, awesomeconf, probe, order, stderr>>

CallStatusbarPosition ==
    /\ unit = Idle
    /\ \E tmp \in PositionStrings :
          unit' = [fn |-> "statusbar_position", tmp |-> tmp, out |-> statusbar_position(tmp)]
    /\ UNCHANGED <<cfg, beyond, pc, i, awesomeconf, probe, order, stderr>>

CallGetNumlockmask ==
    /\ unit = Idle
    /\ \E kb \in Keyboards :
          unit' = [fn |-> "get_numlockmask", kb |-> kb, out |-> get_numlockmask(kb)]
    /\ UNCHANGED <<cfg, beyond, pc, i, awesomeconf, probe, order, stderr>>

\* no configuration is read: the tree is empty and parse_config is not run
InitUnit ==
    /\ cfg = [ parse_error |-> FALSE, position |-> <<>>, layouts |-> <<>>, rules |-> <<>>,
               tags |-> <<>>, modkey |-> <<>>, keys |-> <<>> ]
    /\ beyond = Unread
    /\ pc = "start"
    /\ i = 0
    /\ awesomeconf = InitialConf
    /\ probe = FALSE
    /\ order = <<>>
    /\ stderr = <<>>
    /\ unit = Idle

NextUnit ==
    \/ CallKeyMaskLookup
    \/ CallNameFuncLookup
    \/ CallStatusbarPosition
    \/ CallGetNumlockmask

SpecUnit == InitUnit /\ [][NextUnit]_vars

---------------------------------------------------------------------------
(* What the registries declare, read off the tables *)

\* the declared entries of a table that carry a name (the sentinel carries none)
Named(list) == {k \in 1..Len(list) : list[k].name # NULL}

Registered(name, list) == \E k \in Named(list) : list[k].name = name

FirstNamed(name, list) ==
    CHOOSE k \in Named(list) :
        /\ list[k].name = name
        /\ \A l \in Named(list) : list[l].name = name => k <= l

ModifierOf(name) ==
    IF Registered(name, KeyModList) THEN KeyModList[FirstNamed(name, KeyModList)].keysym ELSE 0

FuncOf(name, list) ==
    IF Registered(name, list) THEN list[FirstNamed(name, list)].func ELSE NULL

---------------------------------------------------------------------------
(* C4 *)

\* C4: in each of the three registries a lookup returns the capability of
\* the first entry whose name equals the given name, returns the negative
\* result (0 or NULL) for a null, empty or unregistered name, and reads no
\* entry beyond those the table declares.
C4_LookupWithinTable ==
    /\ unit.fn = "key_mask_lookup" =>
          /\ unit.out.last <= Len(unit.list)
          /\ ~unit.out.fault
          /\ unit.out.ret = ModifierOf(unit.name)
    /\ unit.fn = "name_func_lookup" =>
          /\ unit.out.last <= Len(unit.list)
          /\ ~unit.out.fault
          /\ unit.out.ret = FuncOf(unit.name, unit.list)

---------------------------------------------------------------------------
(* C6 *)

\* C6: the statusbar position is Off exactly for "off", Bottom exactly for
\* "bottom", and Top for every other string, those that only start with
\* "off" or "bottom" included.
C6_ExactPosition ==
    unit.fn = "statusbar_position" =>
        unit.out = (IF unit.tmp = str_off THEN "BarOff"
                    ELSE IF unit.tmp = str_bottom THEN "BarBot"
                    ELSE "BarTop")

---------------------------------------------------------------------------
(* C7 *)

\* the modifier indices that have a slot holding the key code of Num Lock
NumlockRows(kb) ==
    {r \in 0..7 : \E j \in 0..(kb.max_keypermod - 1) :
                     kb.modifiermap[r * kb.max_keypermod + j] = kb.numlock}

Highest(S) == CHOOSE r \in S : \A q \in S : q <= r
Lowest(S) == CHOOSE r \in S : \A q \in S : r <= q

\* C7 (as claimed): get_numlockmask returns the bit of the first (lowest)
\* modifier index that holds the Num Lock key code, 0 when none holds it.
C7_FirstIndex ==
    unit.fn = "get_numlockmask" =>
        unit.out = (IF NumlockRows(unit.kb) = {} THEN 0
                    ELSE Shl(1, Lowest(NumlockRows(unit.kb))))

\* C7 (amended): get_numlockmask returns the bit of the last (highest)
\* modifier index that holds the Num Lock key code, 0 when none holds it.
C7_LastIndex ==
    unit.fn = "get_numlockmask" =>
        unit.out = (IF NumlockRows(unit.kb) = {} THEN 0
                    ELSE Shl(1, Highest(NumlockRows(unit.kb))))

\* the key code of Num Lock under two modifier indices, the higher one returned
C7_Witness ==
    /\ unit.fn = "get_numlockmask"
    /\ unit.kb.numlock # 0
    /\ NumlockRows(unit.kb) = {1, 4}
    /\ unit.out = 16

---------------------------------------------------------------------------
(* parse_config: what was read and how it ended *)

LastMessage == IF stderr = <<>> THEN "" ELSE stderr[Len(stderr)].msg

LayoutFatal == pc = "exit" /\ LastMessage = "awesome: fatal: no default layout available"
TagFatal == pc = "exit" /\ LastMessage = "awesome: fatal: no tags found in configuration file"

Bound(section) == \E k \in 1..Len(order) : order[k] = section

\* the layout check was made
LayoutChecked == Bound("layouts") /\ pc \notin {"layouts", "layouts_loop"}

\* the tag check was made and passed
TagsSelected == pc \in {"keys", "keys_loop", "done"} \/ (pc = "crashed" /\ Bound("keys"))

Resolves(title) == Registered(title, LayoutsList)

NoDefaultLayout == Len(cfg.layouts) = 0 \/ ~Resolves(cfg.layouts[1].title)

---------------------------------------------------------------------------
(* C1 *)

\* C1: parse_config ends with the "no default layout" fatal exactly when
\* the layouts section is empty or the title of its entry 0 does not
\* resolve, whatever the entries at index >= 1 are, and with no entry the
\* arrange field of entry 0 is not read.
C1_DefaultLayoutFatal ==
    LayoutChecked =>
        /\ LayoutFatal <=> NoDefaultLayout
        /\ Len(cfg.layouts) = 0 => ~probe

\* entry 0 does not resolve, entry 1 does, and the check was fatal
C1_Witness ==
    /\ LayoutFatal
    /\ Len(cfg.layouts) = 2
    /\ ~Resolves(cfg.layouts[1].title)
    /\ Resolves(cfg.layouts[2].title)

---------------------------------------------------------------------------
(* C2 *)

\* the entries the loop has been through
LayoutsDone == IF pc = "layouts_loop" THEN i ELSE awesomeconf.nlayouts

\* C2: the layouts array has one entry per layout sub-section, entry k made
\* from sub-section k: arrange and symbol both NULL when the title does not
\* resolve, the function of the title and the configured (or "???") symbol
\* when it does; an unresolved entry does not stop the loop.
C2_LayoutEntries ==
    Bound("layouts") /\ pc # "layouts" =>
        /\ awesomeconf.nlayouts = Len(cfg.layouts)
        /\ DOMAIN awesomeconf.layouts = 0..(Len(cfg.layouts) - 1)
        /\ pc # "layouts_loop" => LayoutsDone = Len(cfg.layouts)
        /\ \A k \in 0..(LayoutsDone - 1) :
              LET sec == cfg.layouts[k + 1]
                  entry == awesomeconf.layouts[k]
              IN  IF Resolves(sec.title)
                  THEN /\ entry.arrange = FuncOf(sec.title, LayoutsList)
                       /\ entry.arrange # NULL
                       /\ entry.symbol = (IF sec.symbol = <<>> THEN "???" ELSE sec.symbol[1])
                  ELSE /\ entry.arrange = NULL
                       /\ entry.symbol = NULL

\* "tile" then "bogus", with a symbol configured for "bogus": binding went on
C2_Witness ==
    /\ pc = "done"
    /\ Len(cfg.layouts) = 2
    /\ cfg.layouts[1].title = "tile"
    /\ cfg.layouts[2] = [title |-> "bogus", symbol |-> <<"[]=">>]
    /\ awesomeconf.layouts[0].arrange = "layout_tile"
    /\ awesomeconf.layouts[1] = [arrange |-> NULL, symbol |-> NULL]

---------------------------------------------------------------------------
(* C3 *)

\* C3: once the tags are bound and checked, with N >= 1 tags, tags[0] alone
\* is selected (selected = was_selected = true, false for every other tag)
\* and every tag's layout is layouts[0], whatever layout it configured.
C3_FirstTagSelected ==
    TagsSelected =>
        /\ awesomeconf.ntags = Len(cfg.tags)
        /\ awesomeconf.ntags >= 1
        /\ DOMAIN awesomeconf.tags = 0..(awesomeconf.ntags - 1)
        /\ \A k \in DOMAIN awesomeconf.tags :
              /\ awesomeconf.tags[k].selected = (k = 0)
              /\ awesomeconf.tags[k].was_selected = (k = 0)
              /\ awesomeconf.tags[k].layout = 0
              /\ awesomeconf.tags[k].name = cfg.tags[k + 1].title
        /\ Cardinality({k \in DOMAIN awesomeconf.tags : awesomeconf.tags[k].selected}) = 1

\* two tags, the second configured with another layout, binding complete
C3_Witness ==
    /\ pc = "done"
    /\ awesomeconf.ntags = 2
    /\ cfg.tags[2].layout = <<"max">>
    /\ awesomeconf.tags[1].layout = 0
    /\ ~awesomeconf.tags[1].selected

---------------------------------------------------------------------------
(* C5 *)

\* the names a key sub-section lists (the default list is {Mod4})
ListedNames(sec) == IF sec.modkey = <<>> THEN <<"Mod4">> ELSE sec.modkey[1]

RECURSIVE OrOfNames(_)
OrOfNames(names) ==
    IF names = <<>> THEN 0
    ELSE BitOr(ModifierOf(Head(names)), OrOfNames(Tail(names)))

KeysDone == IF pc \in {"keys_loop", "crashed"} THEN i ELSE awesomeconf.nkeys

\* C5: the modifier mask of every key bound is the bitwise OR of the
\* registry values of the names it lists, a name that is not registered
\* giving 0 and never ending the binding.
C5_MaskIsOrOfNames ==
    /\ pc \in {"keys_loop", "done"} =>
          \A k \in 0..(KeysDone - 1) :
              awesomeconf.keys[k].mod = OrOfNames(ListedNames(cfg.keys[k + 1]))
    /\ ~(pc = "crashed" /\ awesomeconf.nkeys # -1)

---------------------------------------------------------------------------
(* C8 *)

\* C8: with the font and the colours acquired, parse_config fails to
\* complete only for a missing default layout or for no tags; names that do
\* not resolve (keys.modkey, a modifier of a key, a command, a layout at
\* index >= 1) let it complete, the unresolved command left NULL.
C8_OnlyTwoFatals ==
    Bound("statusbar") =>
        /\ pc \in {"exit", "crashed"} => (NoDefaultLayout \/ Len(cfg.tags) = 0)
        /\ pc = "done" =>
              /\ ~NoDefaultLayout
              /\ Len(cfg.tags) # 0
              /\ \A k \in 0..(awesomeconf.nkeys - 1) :
                    awesomeconf.keys[k].func =
                        FuncOf(cfg_get(cfg.keys[k + 1].command, ""), KeyfuncList)

---------------------------------------------------------------------------
(* C9 *)

\* C9: the primary modifier is the registry value of keys.modkey whenever
\* that string is registered ("None" included), the Mod4 bit only when it
\* is not, and a string that is not registered never ends the binding.
C9_PrimaryModifier ==
    LET name == cfg_get(cfg.modkey, "Mod4")
    IN  /\ pc \in {"keys_loop", "done"} =>
              awesomeconf.modkey = (IF Registered(name, KeyModList)
                                    THEN ModifierOf(name) ELSE Mod4Mask)
        /\ ~(pc = "crashed" /\ awesomeconf.nkeys = -1)

---------------------------------------------------------------------------
(* C10 *)

SectionOrder == <<"general", "colors", "statusbar", "layouts", "rules", "tags", "keys">>

\* C10: the sections are bound in the order general, colors, statusbar,
\* layouts, rules, tags, keys; after the layout fatal no rule, tag or key is
\* bound (and with neither layouts nor tags the fatal is the layout one);
\* after the tag fatal no tag is selected and no key is bound; and
\* parse_config returns only with a resolved layouts[0] and at least one tag.
C10_OrderAndFatals ==
    /\ Len(order) <= Len(SectionOrder)
    /\ order = SubSeq(SectionOrder, 1, Len(order))
    /\ LayoutFatal =>
          /\ ~Bound("rules") /\ ~Bound("tags") /\ ~Bound("keys")
          /\ awesomeconf.nrules = -1 /\ awesomeconf.ntags = -1 /\ awesomeconf.nkeys = -1
    /\ (pc = "exit" /\ Len(cfg.layouts) = 0 /\ Len(cfg.tags) = 0) => ~TagFatal
    /\ TagFatal =>
          /\ ~Bound("keys")
          /\ awesomeconf.tags = <<>>
          /\ awesomeconf.modkey = -1 /\ awesomeconf.nkeys = -1
    /\ pc = "done" =>
          /\ order = SectionOrder
          /\ awesomeconf.nlayouts >= 1
          /\ awesomeconf.layouts[0].arrange # NULL
          /\ awesomeconf.ntags >= 1

\* neither layouts nor tags: the layout fatal, with nothing bound after it
C10_Witness ==
    /\ LayoutFatal
    /\ Len(cfg.layouts) = 0
    /\ Len(cfg.tags) = 0
    /\ order = SubSeq(SectionOrder, 1, 4)

====
